---- MODULE Spec2Model ----
(***************************************************************************)
(* State-machine model of the cv-application React program: the App        *)
(* component (cvData, draftData, isActive), the three FormSection          *)
(* instances rendered by Aside (one draftState each) and React's           *)
(* enqueue / render / passive-effect cycle that connects them.             *)
(*                                                                         *)
(* JavaScript objects are modelled by reference: `heap` maps an object id  *)
(* to the record it holds, and every state slot holds an id.  A spread     *)
(* `{...prev, [k]: v}` allocates a new object; handing draftState to       *)
(* handleAddToCV or updateDraft shares the same object.                    *)
(***************************************************************************)
EXTENDS Integers, Sequences, FiniteSets, TLC

\* ---------------------------------------------------------------- bounds
\* Number of user events (input changes, Add clicks, toggle clicks) explored.
MaxEvents == 3

\* Longest string, in characters, handed to camelToKebab besides the field keys.
MaxLen == 4

\* The characters those strings are made of: a lowercase letter, a digit, two
\* uppercase letters and a character that is neither.
KebabAlphabet == {"a", "0", "A", "B", "-"}

\* Text a user may type into an input: the empty string and one other text.
TypedValues == {"", "a"}

\* A name no schema declares, used to drive the change handler directly.
ForeignNames == {"nonExistentKey"}

\* ---------------------------------------------------------------- values
\* A field value is `string | null`: <<>> is null, <<t>> is the string t.
Null == <<>>
Str(t) == <<t>>

\* The reference held where JavaScript holds null / nothing yet.
NoRef == 0

\* ------------------------------------------------------- data/formData.ts
\* Only `key` and `type` are modelled; label and placeholder are display text.
\* Variant of GENERAL_INFORMATION: the second descriptor repeats the key of
\* the first (a copy-pasted line whose key was not edited).
GENERAL_INFORMATION_duplicateKey ==
  << [key |-> "name",        type |-> Null],
     [key |-> "name",        type |-> Null],
     [key |-> "phoneNumber", type |-> Str("tel")] >>

GENERAL_INFORMATION ==
  << [key |-> "name",        type |-> Null],
     [key |-> "email",       type |-> Null],
     [key |-> "phoneNumber", type |-> Str("tel")] >>

EDUCATIONAL_EXPERIENCE ==
  << [key |-> "schoolName",   type |-> Null],
     [key |-> "fieldOfStudy", type |-> Null],
     [key |-> "dateStarted",  type |-> Str("date")],
     [key |-> "dateEnded",    type |-> Str("date")] >>

PRACTICAL_EXPERIENCE ==
  << [key |-> "companyName",      type |-> Null],
     [key |-> "positionTitle",    type |-> Null],
     [key |-> "responsibilities", type |-> Str("textarea")],
     [key |-> "dateStarted",      type |-> Str("date")],
     [key |-> "dateEnded",        type |-> Str("date")] >>

\* ------------------------------------------------------------- Aside.tsx
\* The three FormSection instances, in the order Aside renders them.
SectionOrder == <<"general", "practical", "education">>

Sections == {SectionOrder[i] : i \in 1..Len(SectionOrder)}

\* fields={...} prop of each FormSection.
Fields(s) ==
  CASE s = "general"   -> GENERAL_INFORMATION
    [] s = "practical" -> PRACTICAL_EXPERIENCE
    [] s = "education" -> EDUCATIONAL_EXPERIENCE

\* updateDraft={...} prop: the draftData slot the section's effect writes.
DraftSlot(s) ==
  CASE s = "general"   -> "generalDraft"
    [] s = "practical" -> "practicalDraft"
    [] s = "education" -> "educationDraft"

\* Variant of CvSlot: the education section is handed addPracticalExperience
\* (a copy-pasted handleAddToCV prop).
CvSlot_sharedList(s) ==
  CASE s = "general"   -> "generalInformation"
    [] s = "practical" -> "practicalExperience"
    [] s = "education" -> "practicalExperience"

\* handleAddToCV={...} prop: the cvData slot the section's Add click writes.
CvSlot(s) ==
  CASE s = "general"   -> "generalInformation"
    [] s = "practical" -> "practicalExperience"
    [] s = "education" -> "educationalExperience"

\* The key set a section's schema declares.
SchemaKeys(s) == {Fields(s)[i].key : i \in 1..Len(Fields(s))}

\* name={field.key}: the names carried by change events of rendered inputs.
InputNames(s) == {Fields(s)[i].key : i \in 1..Len(Fields(s))}

\* ------------------------------------------------------ object operations
\* The object literal {}.
EmptyObject == [k \in {} |-> Null]

\* acc[key] = value on a fresh accumulator / the spread {...prev, [key]: value}:
\* a copy of obj in which key maps to value, key added when obj lacks it.
SetKey(obj, key, value) ==
  [k \in (DOMAIN obj) \cup {key} |-> IF k = key THEN value ELSE obj[k]]

\* Variant of ReduceFields: the accumulator entry is set to '' instead of null.
RECURSIVE ReduceFields_emptyString(_, _)
ReduceFields_emptyString(fields, acc) ==
  IF fields = <<>> THEN acc
  ELSE ReduceFields_emptyString(Tail(fields), SetKey(acc, Head(fields).key, Str("")))

\* FormSection's useState initialiser:
\*   fields.reduce((acc, field) => { acc[field.key] = null; return acc }, {})
RECURSIVE ReduceFields(_, _)
ReduceFields(fields, acc) ==
  IF fields = <<>> THEN acc
  ELSE ReduceFields(Tail(fields), SetKey(acc, Head(fields).key, Null))

InitialDraftState(s) == ReduceFields(Fields(s), EmptyObject)

\* Variant of FieldUpdater: the spread of prev is forgotten, ({[name]: value}).
FieldUpdater_noSpread(prev, name, value) == SetKey(EmptyObject, name, Str(value))

\* Variant of FieldUpdater: the spread comes last, ({[name]: value, ...prev}),
\* so a key prev already has keeps prev's value.
FieldUpdater_spreadLast(prev, name, value) ==
  [k \in (DOMAIN prev) \cup {name} |-> IF k \in DOMAIN prev THEN prev[k] ELSE Str(value)]

\* Variant of FieldUpdater: an empty input is stored as null, (value || null).
FieldUpdater_emptyToNull(prev, name, value) ==
  SetKey(prev, name, IF value = "" THEN Null ELSE Str(value))

\* Variant of FieldUpdater: writing the value a key already holds clears it.
FieldUpdater_clearsOnRepeat(prev, name, value) ==
  SetKey(prev, name,
         IF name \in DOMAIN prev /\ prev[name] = Str(value) THEN Null ELSE Str(value))

\* The updater handleInputChange enqueues: (prev) => ({...prev, [name]: value}).
FieldUpdater(prev, name, value) == SetKey(prev, name, Str(value))

\* Variant of ApplyFieldUpdaters: the updater queued last is not applied.
RECURSIVE ApplyFieldUpdaters_dropLast(_, _)
ApplyFieldUpdaters_dropLast(prev, queue) ==
  IF Len(queue) <= 1 THEN prev
  ELSE ApplyFieldUpdaters_dropLast(SetKey(prev, Head(queue).name, Str(Head(queue).value)),
                                   Tail(queue))

\* React applies the queued updaters of one hook in order, each to the result
\* of the previous one.
RECURSIVE ApplyFieldUpdaters(_, _)
ApplyFieldUpdaters(prev, queue) ==
  IF queue = <<>> THEN prev
  ELSE ApplyFieldUpdaters(FieldUpdater(prev, Head(queue).name, Head(queue).value),
                          Tail(queue))

\* utils/objects.ts: pluck(arr, key) = arr.map(item => item[key]).
pluck(arr, key) == [i \in 1..Len(arr) |-> arr[i][key]]

\* Object.fromEntries(entries): the entries are set in order on a new object.
RECURSIVE fromEntries(_, _)
fromEntries(entries, acc) ==
  IF entries = <<>> THEN acc
  ELSE fromEntries(Tail(entries), SetKey(acc, Head(entries)[1], Head(entries)[2]))

\* utils/arrays.ts: Object.fromEntries(keys.map((key) => [key, null])).
createStateFromKeys(keys) ==
  fromEntries([i \in 1..Len(keys) |-> <<keys[i], Null>>], EmptyObject)

\* Variant of AppInitialDraft: the hand-written educationDraft literal was not
\* kept in step with the schema and lacks fieldOfStudy.
AppInitialDraft_missingKey(slot) ==
  CASE slot = "generalDraft" ->
         [k \in {"name", "email", "phoneNumber"} |-> Null]
    [] slot = "practicalDraft" ->
         [k \in {"companyName", "positionTitle", "responsibilities",
                 "dateStarted", "dateEnded"} |-> Null]
    [] slot = "educationDraft" ->
         [k \in {"schoolName", "dateStarted", "dateEnded"} |-> Null]

\* App's hand-written initial draftData (one object literal per slot).
AppInitialDraft(slot) ==
  CASE slot = "generalDraft" ->
         [k \in {"name", "email", "phoneNumber"} |-> Null]
    [] slot = "practicalDraft" ->
         [k \in {"companyName", "positionTitle", "responsibilities",
                 "dateStarted", "dateEnded"} |-> Null]
    [] slot = "educationDraft" ->
         [k \in {"schoolName", "fieldOfStudy", "dateStarted", "dateEnded"} |-> Null]

\* update*Draft's updater: (prev) => ({...prev, <slot>: data}).
DraftDataUpdater(prev, slot, ref) == [prev EXCEPT ![slot] = ref]

\* Variant of ApplyDraftDataUpdaters: update*Draft passes an object built from
\* the rendered draftData, setDraftData({...draftData, <slot>: data}), so every
\* queued update starts from the same prev and only the last one shows.
ApplyDraftDataUpdaters_lastWins(prev, queue) ==
  IF queue = <<>> THEN prev
  ELSE DraftDataUpdater(prev, queue[Len(queue)].slot, queue[Len(queue)].ref)

RECURSIVE ApplyDraftDataUpdaters(_, _)
ApplyDraftDataUpdaters(prev, queue) ==
  IF queue = <<>> THEN prev
  ELSE ApplyDraftDataUpdaters(DraftDataUpdater(prev, Head(queue).slot, Head(queue).ref),
                              Tail(queue))

\* Variant of CvDataUpdater: the lists are built as [fieldData, ...prev].
CvDataUpdater_prepend(prev, slot, ref) ==
  IF slot = "generalInformation"
    THEN [prev EXCEPT !.generalInformation = ref]
    ELSE [prev EXCEPT ![slot] = <<ref>> \o prev[slot]]

\* Variant of CvDataUpdater: generalInformation is kept once it is set,
\* (prev.generalInformation ?? fieldData).
CvDataUpdater_keepFirst(prev, slot, ref) ==
  IF slot = "generalInformation"
    THEN [prev EXCEPT !.generalInformation =
                        IF prev.generalInformation = NoRef THEN ref
                        ELSE prev.generalInformation]
    ELSE [prev EXCEPT ![slot] = Append(prev[slot], ref)]

\* add*'s updater: addGeneralInformation replaces the record,
\* addPracticalExperience / addEducationalExperience append to the list.
CvDataUpdater(prev, slot, ref) ==
  IF slot = "generalInformation"
    THEN [prev EXCEPT !.generalInformation = ref]
    ELSE [prev EXCEPT ![slot] = Append(prev[slot], ref)]

RECURSIVE ApplyCvDataUpdaters(_, _)
ApplyCvDataUpdaters(prev, queue) ==
  IF queue = <<>> THEN prev
  ELSE ApplyCvDataUpdaters(CvDataUpdater(prev, Head(queue).slot, Head(queue).ref),
                           Tail(queue))

\* Variant of ApplyToggles: the click handler opens the panel, setIsActive(true),
\* where it should flip it.
ApplyToggles_setTrue(prev, n) == IF n = 0 THEN prev ELSE TRUE

\* The toggle's updater (prev) => !prev, applied once per queued click.
RECURSIVE ApplyToggles(_, _)
ApplyToggles(prev, n) == IF n = 0 THEN prev ELSE ApplyToggles(~prev, n - 1)

\* ---------------------------------------------- utilities/text-formatting.ts
\* Strings handed to camelToKebab are sequences of one-character strings.
UPPERCASE == << "A", "B", "C", "D", "E", "F", "G", "H", "I", "J", "K", "L", "M",
                "N", "O", "P", "Q", "R", "S", "T", "U", "V", "W", "X", "Y", "Z" >>

LOWERCASE == << "a", "b", "c", "d", "e", "f", "g", "h", "i", "j", "k", "l", "m",
                "n", "o", "p", "q", "r", "s", "t", "u", "v", "w", "x", "y", "z" >>

DIGITS == {"0", "1", "2", "3", "4", "5", "6", "7", "8", "9"}

\* The character class [A-Z].
IsUpper(c) == \E i \in 1..Len(UPPERCASE) : UPPERCASE[i] = c

\* The character class [a-z0-9].
IsLowerOrDigit(c) == (\E i \in 1..Len(LOWERCASE) : LOWERCASE[i] = c) \/ c \in DIGITS

\* String.prototype.toLowerCase on one character.
ToLowerCaseChar(c) ==
  IF IsUpper(c) THEN LOWERCASE[CHOOSE i \in 1..Len(UPPERCASE) : UPPERCASE[i] = c] ELSE c

\* String.prototype.toLowerCase.
ToLowerCase(str) == [i \in 1..Len(str) |-> ToLowerCaseChar(str[i])]

\* str.replace(/([a-z0-9])([A-Z])/g, '$1-$2'): the matches are found left to
\* right, each search resuming after the end of the previous match.
RECURSIVE ReplaceHumps(_)
ReplaceHumps(str) ==
  IF Len(str) < 2 THEN str
  ELSE IF IsLowerOrDigit(str[1]) /\ IsUpper(str[2])
         THEN <<str[1], "-", str[2]>> \o ReplaceHumps(SubSeq(str, 3, Len(str)))
         ELSE <<str[1]>> \o ReplaceHumps(Tail(str))

\* The same replace without the g flag: only the first match is replaced.
RECURSIVE ReplaceFirstHump(_)
ReplaceFirstHump(str) ==
  IF Len(str) < 2 THEN str
  ELSE IF IsLowerOrDigit(str[1]) /\ IsUpper(str[2])
         THEN <<str[1], "-", str[2]>> \o SubSeq(str, 3, Len(str))
         ELSE <<str[1]>> \o ReplaceFirstHump(Tail(str))

\* Variant of camelToKebab: the regular expression lacks the g flag.
camelToKebab_firstMatchOnly(str) == ToLowerCase(ReplaceFirstHump(str))

\* camelToKebab = (str) => str.replace(/([a-z0-9])([A-Z])/g, '$1-$2').toLowerCase()
camelToKebab(str) == ToLowerCase(ReplaceHumps(str))

\* The characters of each field key of data/formData.ts.
KeyChars(key) ==
  CASE key = "name"             -> <<"n","a","m","e">>
    [] key = "email"            -> <<"e","m","a","i","l">>
    [] key = "phoneNumber"      -> <<"p","h","o","n","e","N","u","m","b","e","r">>
    [] key = "schoolName"       -> <<"s","c","h","o","o","l","N","a","m","e">>
    [] key = "fieldOfStudy"     -> <<"f","i","e","l","d","O","f","S","t","u","d","y">>
    [] key = "dateStarted"      -> <<"d","a","t","e","S","t","a","r","t","e","d">>
    [] key = "dateEnded"        -> <<"d","a","t","e","E","n","d","e","d">>
    [] key = "companyName"      -> <<"c","o","m","p","a","n","y","N","a","m","e">>
    [] key = "positionTitle"    -> <<"p","o","s","i","t","i","o","n","T","i","t","l","e">>
    [] key = "responsibilities" -> <<"r","e","s","p","o","n","s","i","b","i","l","i","t","i","e","s">>

\* const id = camelToKebab(field.key): the id FormSection gives a field's input.
FieldId(key) == camelToKebab(KeyChars(key))

\* The strings camelToKebab is exercised on: every string over KebabAlphabet
\* up to MaxLen characters, and the field keys the application passes to it.
KebabInputs ==
  (UNION {[1..n -> KebabAlphabet] : n \in 0..MaxLen})
  \cup UNION {{KeyChars(k) : k \in SchemaKeys(s)} : s \in Sections}

\* ------------------------------------------- ButtonToggle/ButtonToggle.tsx
\* type VisualVariant = 'hamburger' | 'icon' | 'avatar' | 'badge'.
VisualVariant == {"hamburger", "icon", "avatar", "badge"}

\* The destructuring default of the props: visual = 'hamburger'.
Visual(props) == IF props.visual = Null THEN "hamburger" ELSE props.visual[1]

\* JavaScript truthiness of an optional string: undefined and '' are falsy.
Truthy(v) == v # Null /\ v # Str("")

\* An element renderVisual returns; src and content are Null where not set.
Element(tag, className, src, content) ==
  [tag |-> tag, className |-> className, src |-> src, content |-> content]

\* Variant of renderVisual: the icon case renders <img src={iconUrl} alt="" />
\* without testing iconUrl.
renderVisual_iconAlways(props) ==
  CASE Visual(props) = "hamburger" -> <<Element("div", "hamburger-bars", Null, Null)>>
    [] Visual(props) = "icon"      -> <<Element("img", "", props.iconUrl, Null)>>
    [] Visual(props) = "avatar"    -> <<Element("div", "avatar-container", Null, props.children)>>
    [] Visual(props) = "badge"     -> <<Element("div", "badge-container", Null, props.children)>>
    [] OTHER                       -> <<>>

\* renderVisual(): the switch on visual; the sequence holds the element
\* returned, and is empty where null is returned.
renderVisual(props) ==
  CASE Visual(props) = "hamburger" -> <<Element("div", "hamburger-bars", Null, Null)>>
    [] Visual(props) = "icon"      -> IF Truthy(props.iconUrl)
                                        THEN <<Element("img", "", props.iconUrl, Null)>>
                                        ELSE <<>>
    [] Visual(props) = "avatar"    -> <<Element("div", "avatar-container", Null, props.children)>>
    [] Visual(props) = "badge"     -> <<Element("div", "badge-container", Null, props.children)>>
    [] OTHER                       -> <<>>

\* The <button> ButtonToggle returns: its aria attributes and its one child.
ButtonToggle(props) ==
  [ariaLabel    |-> IF props.ariaLabel = Null
                      THEN <<"Toggle element with ID: ", props.controlledElementId>>
                      ELSE <<props.ariaLabel[1]>>,
   ariaControls |-> props.controlledElementId,
   ariaExpanded |-> props.isControlledElementActive,
   visuals      |-> renderVisual(props)]

\* The props ButtonToggle is rendered with: every variant or none, an icon URL
\* that is absent, empty or set, children, a label, and both panel states.
ButtonProps ==
  [controlledElementId       : {"aside"},
   isControlledElementActive : BOOLEAN,
   ariaLabel                 : {Null, Str("Menu")},
   visual                    : {Null} \cup {Str(v) : v \in VisualVariant},
   iconUrl                   : {Null, Str(""), Str("menu.svg")},
   children                  : {Null, Str("JK")}]

\* ------------------------------------------------------------------ state
VARIABLES
  mounted,             \* createRoot(root).render(<App />) has committed
  heap,                \* object id -> the record that object holds
  draftState,          \* FormSection state: section -> object id
  setDraftStateQueue,  \* per section: updaters queued by handleInputChange
  effectPending,       \* per section: the useEffect on [draftState] is due
  draftData,           \* App state: draft slot -> object id
  setDraftDataQueue,   \* updaters queued by update*Draft
  cvData,              \* App state: generalInformation id, two lists of ids
  setCvDataQueue,      \* updaters queued by add*
  isActive,            \* App state: side panel open
  setIsActiveQueue,    \* number of queued (prev) => !prev updaters
  events,              \* history: the user events dispatched so far
  kebab,               \* one call of camelToKebab: its argument and result
  button,              \* one render of ButtonToggle: its props and output
  document,            \* the ids of the elements of the host page
  uncaught             \* an uncaught Error has ended the entry module

vars == <<mounted, heap, draftState, setDraftStateQueue, effectPending,
          draftData, setDraftDataQueue, cvData, setCvDataQueue,
          isActive, setIsActiveQueue, events, kebab, button, document, uncaught>>

DraftSlots == {DraftSlot(s) : s \in Sections}

\* Nothing is queued and no effect is due: the point at which the browser
\* dispatches the next user event (React flushes discrete events synchronously).
Quiescent ==
  /\ mounted
  /\ \A s \in Sections : setDraftStateQueue[s] = <<>> /\ ~effectPending[s]
  /\ setDraftDataQueue = <<>>
  /\ setCvDataQueue = <<>>
  /\ setIsActiveQueue = 0

\* The application before its first render.
AppInit ==
  /\ mounted = FALSE
  /\ heap = <<>>
  /\ draftState = [s \in Sections |-> NoRef]
  /\ setDraftStateQueue = [s \in Sections |-> <<>>]
  /\ effectPending = [s \in Sections |-> FALSE]
  /\ draftData = [d \in DraftSlots |-> NoRef]
  /\ setDraftDataQueue = <<>>
  /\ cvData = [generalInformation |-> NoRef,
               practicalExperience |-> <<>>,
               educationalExperience |-> <<>>]
  /\ setCvDataQueue = <<>>
  /\ isActive = FALSE
  /\ setIsActiveQueue = 0
  /\ events = <<>>

\* No call of camelToKebab is under observation.
KebabIdle == [str |-> <<>>, result |-> <<>>, called |-> FALSE]

\* No render of ButtonToggle is under observation.
ButtonIdle == [props |-> <<>>, result |-> <<>>, called |-> FALSE]

\* The host pages considered: one with the #root container, one whose
\* container carries another id.
Documents == {{"root"}, {"app"}}

\* Variant of getRootElement: the element is returned unchecked
\* (document.getElementById(id) as HTMLElement), nothing is thrown.
getRootElement_unchecked(id) == [threw |-> FALSE, element |-> id]

\* utils/get-root.ts: document.getElementById(id) ?? (() => { throw new Error(...) })()
getRootElement(id) ==
  IF id \in document THEN [threw |-> FALSE, element |-> id]
  ELSE [threw |-> TRUE, element |-> ""]

Init ==
  /\ AppInit
  /\ kebab = KebabIdle
  /\ button = ButtonIdle
  /\ document \in Documents
  /\ uncaught = FALSE

\* ---------------------------------------------------------------- actions
\* The object each FormSection's useState initialiser creates at mount: the
\* three App drafts are allocated first, then one draft per section in order.
MountDraftRef(s) == 3 + (CHOOSE i \in 1..Len(SectionOrder) : SectionOrder[i] = s)

\* First render of <App />: App's useState initialisers create cvData,
\* draftData and isActive; each FormSection's useState initialiser creates its
\* blank draftState; every FormSection's effect is due after the commit.
Mount ==
  /\ ~mounted
  /\ ~uncaught
  /\ ~getRootElement("root").threw
  /\ mounted' = TRUE
  /\ heap' = << AppInitialDraft("generalDraft"),
                AppInitialDraft("practicalDraft"),
                AppInitialDraft("educationDraft"),
                InitialDraftState(SectionOrder[1]),
                InitialDraftState(SectionOrder[2]),
                InitialDraftState(SectionOrder[3]) >>
  /\ draftData' = [generalDraft |-> 1, practicalDraft |-> 2, educationDraft |-> 3]
  /\ draftState' = [s \in Sections |-> MountDraftRef(s)]
  /\ cvData' = [generalInformation |-> NoRef,
                practicalExperience |-> <<>>,
                educationalExperience |-> <<>>]
  /\ isActive' = FALSE
  /\ effectPending' = [s \in Sections |-> TRUE]
  /\ UNCHANGED <<kebab, button, document, uncaught, setDraftStateQueue, setDraftDataQueue, setCvDataQueue,
                 setIsActiveQueue, events>>

\* main.tsx: const root = getRootElement('root') throws; the module stops
\* there and createRoot(root).render(...) is never reached.
BootstrapThrows ==
  /\ ~mounted
  /\ ~uncaught
  /\ getRootElement("root").threw
  /\ uncaught' = TRUE
  /\ UNCHANGED <<kebab, button, document, mounted, heap, draftState,
                 setDraftStateQueue, effectPending, draftData, setDraftDataQueue,
                 cvData, setCvDataQueue, isActive, setIsActiveQueue, events>>

\* handleInputChange(e) with e.target = {name, value}: enqueue the updater.
HandleInputChange(s, name, value) ==
  /\ Quiescent
  /\ Len(events) < MaxEvents
  /\ setDraftStateQueue' =
       [setDraftStateQueue EXCEPT ![s] = Append(@, [name |-> name, value |-> value])]
  /\ events' = Append(events, [kind |-> "change", section |-> s,
                               name |-> name, value |-> value])
  /\ UNCHANGED <<kebab, button, document, uncaught, mounted, heap, draftState, effectPending, draftData,
                 setDraftDataQueue, cvData, setCvDataQueue, isActive,
                 setIsActiveQueue>>

\* Variant of RenderFormSection: the updaters write into the object prev refers
\* to (prev[name] = value; return prev) instead of building a new object.
RenderFormSection_inPlace(s) ==
  /\ mounted
  /\ setDraftStateQueue[s] # <<>>
  /\ heap' = [heap EXCEPT ![draftState[s]] =
                ApplyFieldUpdaters(heap[draftState[s]], setDraftStateQueue[s])]
  /\ setDraftStateQueue' = [setDraftStateQueue EXCEPT ![s] = <<>>]
  /\ effectPending' = [effectPending EXCEPT ![s] = TRUE]
  /\ UNCHANGED <<kebab, button, document, uncaught, mounted, draftState, draftData, setDraftDataQueue, cvData,
                 setCvDataQueue, isActive, setIsActiveQueue, events>>

\* Variant of RenderFormSection: the effect is declared with an empty
\* dependency list, so it is not due again after draftState changes.
RenderFormSection_noEffect(s) ==
  /\ mounted
  /\ setDraftStateQueue[s] # <<>>
  /\ heap' = Append(heap, ApplyFieldUpdaters(heap[draftState[s]], setDraftStateQueue[s]))
  /\ draftState' = [draftState EXCEPT ![s] = Len(heap) + 1]
  /\ setDraftStateQueue' = [setDraftStateQueue EXCEPT ![s] = <<>>]
  /\ UNCHANGED <<kebab, button, document, uncaught, mounted, effectPending, draftData, setDraftDataQueue, cvData,
                 setCvDataQueue, isActive, setIsActiveQueue, events>>

\* Re-render of a FormSection with queued updaters: the new draftState is a
\* new object, so the effect's dependency changed and the effect is due.
RenderFormSection(s) ==
  /\ mounted
  /\ setDraftStateQueue[s] # <<>>
  /\ heap' = Append(heap, ApplyFieldUpdaters(heap[draftState[s]], setDraftStateQueue[s]))
  /\ draftState' = [draftState EXCEPT ![s] = Len(heap) + 1]
  /\ setDraftStateQueue' = [setDraftStateQueue EXCEPT ![s] = <<>>]
  /\ effectPending' = [effectPending EXCEPT ![s] = TRUE]
  /\ UNCHANGED <<kebab, button, document, uncaught, mounted, draftData, setDraftDataQueue, cvData, setCvDataQueue,
                 isActive, setIsActiveQueue, events>>

\* The updaters the due effects enqueue, in render order:
\* useEffect(() => { updateDraft(draftState) }, [draftState, updateDraft]).
RECURSIVE EffectUpdaters(_)
EffectUpdaters(order) ==
  IF order = <<>> THEN <<>>
  ELSE (IF effectPending[Head(order)]
          THEN << [slot |-> DraftSlot(Head(order)), ref |-> draftState[Head(order)]] >>
          ELSE <<>>)
       \o EffectUpdaters(Tail(order))

\* Variant of FlushPassiveEffects: the effect calls handleAddToCV(draftState)
\* where it should call updateDraft(draftState).
FlushPassiveEffects_addsToCv ==
  /\ mounted
  /\ \E s \in Sections : effectPending[s]
  /\ \A s \in Sections : setDraftStateQueue[s] = <<>>
  /\ setCvDataQueue' =
       setCvDataQueue \o
         [i \in 1..Len(EffectUpdaters(SectionOrder)) |->
            [slot |-> CvSlot(CHOOSE s \in Sections :
                               DraftSlot(s) = EffectUpdaters(SectionOrder)[i].slot),
             ref |-> EffectUpdaters(SectionOrder)[i].ref]]
  /\ effectPending' = [s \in Sections |-> FALSE]
  /\ UNCHANGED <<kebab, button, document, uncaught, mounted, heap, draftState, setDraftStateQueue, draftData,
                 setDraftDataQueue, cvData, isActive, setIsActiveQueue, events>>

\* React runs the passive effects of the last commit.
FlushPassiveEffects ==
  /\ mounted
  /\ \E s \in Sections : effectPending[s]
  /\ \A s \in Sections : setDraftStateQueue[s] = <<>>
  /\ setDraftDataQueue' = setDraftDataQueue \o EffectUpdaters(SectionOrder)
  /\ effectPending' = [s \in Sections |-> FALSE]
  /\ UNCHANGED <<kebab, button, document, uncaught, mounted, heap, draftState, setDraftStateQueue, draftData,
                 cvData, setCvDataQueue, isActive, setIsActiveQueue, events>>

\* Variant of ClickFieldData: the handler keeps the draftState of the first
\* render (a stale closure).
ClickFieldData_stale(s) == MountDraftRef(s)

\* The record the Add button's onClick passes: (e) => handleButtonClick(e, draftState).
ClickFieldData(s) == draftState[s]

\* Variant of HandleButtonClick: the click also puts the section's draft back
\* to the blank record of the mount.
HandleButtonClick_resetsDraft(s) ==
  /\ Quiescent
  /\ Len(events) < MaxEvents
  /\ setCvDataQueue' = Append(setCvDataQueue,
                              [slot |-> CvSlot(s), ref |-> draftState[s]])
  /\ draftState' = [draftState EXCEPT ![s] = MountDraftRef(s)]
  /\ events' = Append(events, [kind |-> "add", section |-> s,
                               name |-> "", value |-> ""])
  /\ UNCHANGED <<kebab, button, document, uncaught, mounted, heap, setDraftStateQueue, effectPending,
                 draftData, setDraftDataQueue, cvData, isActive, setIsActiveQueue>>

\* Variant of HandleButtonClick: the click is ignored while a field of the
\* draft is still unset (a required-field check).
HandleButtonClick_requiresComplete(s) ==
  /\ Quiescent
  /\ Len(events) < MaxEvents
  /\ \A k \in DOMAIN heap[draftState[s]] : heap[draftState[s]][k] # Null
  /\ setCvDataQueue' = Append(setCvDataQueue,
                              [slot |-> CvSlot(s), ref |-> draftState[s]])
  /\ events' = Append(events, [kind |-> "add", section |-> s,
                               name |-> "", value |-> ""])
  /\ UNCHANGED <<kebab, button, document, uncaught, mounted, heap, draftState, setDraftStateQueue, effectPending,
                 draftData, setDraftDataQueue, cvData, isActive, setIsActiveQueue>>

\* handleButtonClick(e, fieldData): e.preventDefault(); handleAddToCV(fieldData).
HandleButtonClick(s) ==
  /\ Quiescent
  /\ Len(events) < MaxEvents
  /\ setCvDataQueue' = Append(setCvDataQueue,
                              [slot |-> CvSlot(s), ref |-> ClickFieldData(s)])
  /\ events' = Append(events, [kind |-> "add", section |-> s,
                               name |-> "", value |-> ""])
  /\ UNCHANGED <<kebab, button, document, uncaught, mounted, heap, draftState, setDraftStateQueue, effectPending,
                 draftData, setDraftDataQueue, cvData, isActive, setIsActiveQueue>>

\* toggleProps.onClick: () => setIsActive(prev => !prev).
ToggleClick ==
  /\ Quiescent
  /\ Len(events) < MaxEvents
  /\ setIsActiveQueue' = setIsActiveQueue + 1
  /\ events' = Append(events, [kind |-> "toggle", section |-> "",
                               name |-> "", value |-> ""])
  /\ UNCHANGED <<kebab, button, document, uncaught, mounted, heap, draftState, setDraftStateQueue, effectPending,
                 draftData, setDraftDataQueue, cvData, setCvDataQueue, isActive>>

\* Variant of RenderApp: Aside renders its sections only while open
\* ({isOpen && <FormSection ... />}), so a render that applies a toggle mounts
\* them anew and each draft is the blank record again.
RenderApp_remountsSections ==
  /\ mounted
  /\ \/ setDraftDataQueue # <<>>
     \/ setCvDataQueue # <<>>
     \/ setIsActiveQueue # 0
  /\ draftData' = ApplyDraftDataUpdaters(draftData, setDraftDataQueue)
  /\ cvData' = ApplyCvDataUpdaters(cvData, setCvDataQueue)
  /\ isActive' = ApplyToggles(isActive, setIsActiveQueue)
  /\ draftState' = IF setIsActiveQueue # 0
                     THEN [s \in Sections |-> MountDraftRef(s)]
                     ELSE draftState
  /\ setDraftDataQueue' = <<>>
  /\ setCvDataQueue' = <<>>
  /\ setIsActiveQueue' = 0
  /\ UNCHANGED <<kebab, button, document, uncaught, mounted, heap, setDraftStateQueue, effectPending, events>>

\* Re-render of App with queued updaters on any of its three state hooks.
RenderApp ==
  /\ mounted
  /\ \/ setDraftDataQueue # <<>>
     \/ setCvDataQueue # <<>>
     \/ setIsActiveQueue # 0
  /\ draftData' = ApplyDraftDataUpdaters(draftData, setDraftDataQueue)
  /\ cvData' = ApplyCvDataUpdaters(cvData, setCvDataQueue)
  /\ isActive' = ApplyToggles(isActive, setIsActiveQueue)
  /\ setDraftDataQueue' = <<>>
  /\ setCvDataQueue' = <<>>
  /\ setIsActiveQueue' = 0
  /\ UNCHANGED <<kebab, button, document, uncaught, mounted, heap, draftState, setDraftStateQueue, effectPending,
                 events>>

\* A change event of one of the inputs the section renders.
InputChange == \E s \in Sections : \E name \in InputNames(s) : \E value \in TypedValues :
                 HandleInputChange(s, name, value)

\* The change handler driven with a name no rendered input carries.
ForeignInputChange == \E s \in Sections : \E name \in ForeignNames : \E value \in TypedValues :
                        HandleInputChange(s, name, value)

AddClick == \E s \in Sections : HandleButtonClick(s)

RenderSection == \E s \in Sections : RenderFormSection(s)

Next ==
  \/ Mount
  \/ BootstrapThrows
  \/ InputChange
  \/ AddClick
  \/ ToggleClick
  \/ RenderSection
  \/ FlushPassiveEffects
  \/ RenderApp

\* The application driven through its rendered user interface.
Spec == Init /\ [][Next]_vars

NextRaw ==
  \/ Mount
  \/ BootstrapThrows
  \/ InputChange
  \/ ForeignInputChange
  \/ AddClick
  \/ ToggleClick
  \/ RenderSection
  \/ FlushPassiveEffects
  \/ RenderApp

\* The same application with the change handler also driven directly.
SpecRaw == Init /\ [][NextRaw]_vars

\* The last render and its effects are done; handlers may run back to back
\* before React renders again (several calls in one task, as under act() or
\* unstable_batchedUpdates), so their updaters pile up in the queues.
BatchOpen ==
  /\ mounted
  /\ \A s \in Sections : ~effectPending[s]
  /\ setDraftDataQueue = <<>>

\* handleInputChange called while earlier updaters may still be queued.
BatchedHandleInputChange(s, name, value) ==
  /\ BatchOpen
  /\ Len(events) < MaxEvents
  /\ setDraftStateQueue' =
       [setDraftStateQueue EXCEPT ![s] = Append(@, [name |-> name, value |-> value])]
  /\ events' = Append(events, [kind |-> "change", section |-> s,
                               name |-> name, value |-> value])
  /\ UNCHANGED <<kebab, button, document, uncaught, mounted, heap, draftState, effectPending, draftData,
                 setDraftDataQueue, cvData, setCvDataQueue, isActive,
                 setIsActiveQueue>>

\* handleButtonClick called while earlier updaters may still be queued.
BatchedHandleButtonClick(s) ==
  /\ BatchOpen
  /\ Len(events) < MaxEvents
  /\ setCvDataQueue' = Append(setCvDataQueue,
                              [slot |-> CvSlot(s), ref |-> ClickFieldData(s)])
  /\ events' = Append(events, [kind |-> "add", section |-> s,
                               name |-> "", value |-> ""])
  /\ UNCHANGED <<kebab, button, document, uncaught, mounted, heap, draftState, setDraftStateQueue, effectPending,
                 draftData, setDraftDataQueue, cvData, isActive, setIsActiveQueue>>

\* toggleProps.onClick called while earlier updaters may still be queued.
BatchedToggleClick ==
  /\ BatchOpen
  /\ Len(events) < MaxEvents
  /\ setIsActiveQueue' = setIsActiveQueue + 1
  /\ events' = Append(events, [kind |-> "toggle", section |-> "",
                               name |-> "", value |-> ""])
  /\ UNCHANGED <<kebab, button, document, uncaught, mounted, heap, draftState, setDraftStateQueue, effectPending,
                 draftData, setDraftDataQueue, cvData, setCvDataQueue, isActive>>

\* The inputs the batched calls are made for: the first and the last field of
\* each section (two updaters on one key and on two keys are both possible).
BatchNames(s) == {Fields(s)[1].key, Fields(s)[Len(Fields(s))].key}

BatchedInputChange == \E s \in Sections : \E name \in BatchNames(s) : \E value \in TypedValues :
                        BatchedHandleInputChange(s, name, value)

BatchedAddClick == \E s \in Sections : BatchedHandleButtonClick(s)

NextBatched ==
  \/ Mount
  \/ BootstrapThrows
  \/ BatchedInputChange
  \/ BatchedAddClick
  \/ BatchedToggleClick
  \/ RenderSection
  \/ FlushPassiveEffects
  \/ RenderApp

\* The application with its handlers also called in batches.
SpecBatched == Init /\ [][NextBatched]_vars

\* One call camelToKebab(str).
CallCamelToKebab ==
  /\ ~kebab.called
  /\ kebab' = [str |-> kebab.str, result |-> camelToKebab(kebab.str), called |-> TRUE]
  /\ UNCHANGED <<mounted, heap, draftState, setDraftStateQueue, effectPending,
                 draftData, setDraftDataQueue, cvData, setCvDataQueue,
                 isActive, setIsActiveQueue, events, button, document, uncaught>>

\* camelToKebab about to be called on any one of the strings of KebabInputs.
InitKebab ==
  /\ AppInit
  /\ \E str \in KebabInputs : kebab = [str |-> str, result |-> <<>>, called |-> FALSE]
  /\ button = ButtonIdle
  /\ document = {"root"}
  /\ uncaught = FALSE

NextKebab == CallCamelToKebab

\* camelToKebab as a function of its argument.
SpecKebab == InitKebab /\ [][NextKebab]_vars

\* One render of <ButtonToggle {...props} />.
RenderButtonToggle ==
  /\ ~button.called
  /\ button' = [props |-> button.props, result |-> ButtonToggle(button.props),
                called |-> TRUE]
  /\ UNCHANGED <<mounted, heap, draftState, setDraftStateQueue, effectPending,
                 draftData, setDraftDataQueue, cvData, setCvDataQueue,
                 isActive, setIsActiveQueue, events, kebab, document, uncaught>>

\* ButtonToggle about to be rendered with any one of the props of ButtonProps.
InitButton ==
  /\ AppInit
  /\ kebab = KebabIdle
  /\ \E props \in ButtonProps : button = [props |-> props, result |-> <<>>, called |-> FALSE]
  /\ document = {"root"}
  /\ uncaught = FALSE

NextButton == RenderButtonToggle

\* ButtonToggle as a function of its props.
SpecButton == InitButton /\ [][NextButton]_vars

TypeOK ==
  /\ mounted \in BOOLEAN
  /\ isActive \in BOOLEAN
  /\ setIsActiveQueue \in 0..MaxEvents
  /\ \A s \in Sections : draftState[s] \in 0..Len(heap)
  /\ \A d \in DraftSlots : draftData[d] \in 0..Len(heap)
  /\ Len(events) <= MaxEvents

\* ------------------------------------------------------------- rendering
\* What React puts on the page for a `string | null` child or value: null
\* renders as no text, and value={draftState[field.key] ?? ''} shows ''.
RenderedText(v) == IF v = Null THEN "" ELSE v[1]

\* The value each rendered input of a section shows.
InputValue(s, k) == RenderedText(heap[draftState[s]][k])

\* Main: Object.entries(draftData).map(...) renders one draft-container per
\* draftData entry, listing Object.entries(data) as key / value items.
\* cvData is received as a prop and not read.
MainDraftItems(slot) ==
  [k \in DOMAIN heap[draftData[slot]] |-> RenderedText(heap[draftData[slot]][k])]

\* The items Main would list for a record of the CV collection.
ItemsOf(ref) == [k \in DOMAIN heap[ref] |-> RenderedText(heap[ref][k])]

\* App: const toggleProps = {controlledElementId: ASIDE_ID,
\* isControlledElementActive: isActive, ...}, spread onto <ButtonToggle />.
toggleProps == [controlledElementId |-> "aside", isControlledElementActive |-> isActive]

\* App: the id and isOpen props of <Aside id={ASIDE_ID} isOpen={isActive} ... />.
AsideProps == [id |-> "aside", isOpen |-> isActive]

\* ButtonToggle: aria-expanded={isControlledElementActive}.
AriaExpanded(props) == props.isControlledElementActive

\* ButtonToggle: aria-controls={controlledElementId}.
AriaControls(props) == props.controlledElementId

\* Aside: aria-hidden={!isOpen}.
AriaHidden(props) == ~props.isOpen

\* FormSection: the element rendered for one field descriptor,
\*   field.type === 'textarea' ? <textarea ... /> : <input type={field.type ?? 'text'} ... />
RenderField(field) ==
  IF field.type = Str("textarea")
    THEN [tag |-> "textarea", type |-> Null]
    ELSE [tag |-> "input",
          type |-> IF field.type = Null THEN Str("text") ELSE field.type]

\* ------------------------------------------------- history of user events
\* The blank record of a section as the schema describes it.
BlankOf(s) == [k \in SchemaKeys(s) |-> Null]

\* The record a reader of the event history expects section s to hold after
\* the first n events: the change events of s folded left to right.
RECURSIVE TypedUpTo(_, _)
TypedUpTo(s, n) ==
  IF n = 0 THEN BlankOf(s)
  ELSE LET prev == TypedUpTo(s, n - 1)
           e == events[n]
       IN IF e.kind = "change" /\ e.section = s /\ e.name \in SchemaKeys(s)
            THEN [prev EXCEPT ![e.name] = Str(e.value)]
            ELSE prev

\* Positions in the history of the Add clicks of section s.
AddPositions(s) == {i \in 1..Len(events) : events[i].kind = "add" /\ events[i].section = s}

\* Positions in the history of the change events of section s.
ChangePositions(s) ==
  {i \in 1..Len(events) : events[i].kind = "change" /\ events[i].section = s}

LastEvent == events[Len(events)]

\* Every object id the CV collection holds.
CvRefs ==
  (IF cvData.generalInformation = NoRef THEN {} ELSE {cvData.generalInformation})
  \cup {cvData.practicalExperience[i] : i \in 1..Len(cvData.practicalExperience)}
  \cup {cvData.educationalExperience[i] : i \in 1..Len(cvData.educationalExperience)}

\* The object ids the CV collection holds for one section.
CvRefsOf(s) ==
  IF s = "general"
    THEN (IF cvData.generalInformation = NoRef THEN {} ELSE {cvData.generalInformation})
    ELSE {cvData[CvSlot(s)][i] : i \in 1..Len(cvData[CvSlot(s)])}

ListSections == {"practical", "education"}

\* The refs queued for one cvData slot, in queue order.
RECURSIVE QueuedFor(_, _)
QueuedFor(slot, queue) ==
  IF queue = <<>> THEN <<>>
  ELSE (IF Head(queue).slot = slot THEN <<Head(queue).ref>> ELSE <<>>)
       \o QueuedFor(slot, Tail(queue))

\* ------------------------------------------------------------------ C1
\* C1: in every reachable state each section's draft record, its mirror in
\* draftData and every record stored in the CV collection has exactly the key
\* set of that section's schema.
C1_KeySetsEqualSchema ==
  mounted =>
    \A s \in Sections :
      /\ DOMAIN heap[draftState[s]] = SchemaKeys(s)
      /\ DOMAIN heap[draftData[DraftSlot(s)]] = SchemaKeys(s)
      /\ \A r \in CvRefsOf(s) : DOMAIN heap[r] = SchemaKeys(s)

\* An edited draft has been mirrored and submitted.
C1_Witness ==
  /\ Quiescent
  /\ \E s \in Sections :
       /\ ChangePositions(s) # {}
       /\ CvRefsOf(s) # {}
       /\ draftData[DraftSlot(s)] = draftState[s]
       /\ \E r \in CvRefsOf(s) : \E k \in SchemaKeys(s) : heap[r][k] # Null

\* ------------------------------------------------------------------ C2
\* C2: a field update whose key the section's schema does not declare leaves
\* the draft record unchanged and never adds that key to the record.
C2_UnknownKeyNeverAdded ==
  (Quiescent /\ events # <<>> /\ LastEvent.kind = "change"
     /\ LastEvent.name \notin SchemaKeys(LastEvent.section))
  => /\ LastEvent.name \notin DOMAIN heap[draftState[LastEvent.section]]
     /\ heap[draftState[LastEvent.section]]
          = TypedUpTo(LastEvent.section, Len(events) - 1)

\* ------------------------------------------------------------------ C3
\* C3: a field update (k, v) with k declared in the schema yields a new record
\* that maps k to v and agrees with the old record R on every other key, and
\* the object R held before the update still holds what it held.
C3_UpdateSetsOneKeyAndCopies ==
  [][\A s \in Sections :
       (/\ Len(setDraftStateQueue[s]) = 1
        /\ setDraftStateQueue'[s] = <<>>
        /\ setDraftStateQueue[s][1].name \in SchemaKeys(s))
       => LET R == heap[draftState[s]]
              k == setDraftStateQueue[s][1].name
              v == setDraftStateQueue[s][1].value
              new == heap'[draftState'[s]]
          IN /\ DOMAIN new = DOMAIN R
             /\ new[k] = Str(v)
             /\ \A j \in (DOMAIN R) \ {k} : new[j] = R[j]
             /\ heap'[draftState[s]] = R
     ]_vars

\* An update changed one key of a draft that already held another value.
C3_Witness ==
  mounted /\ \E s \in Sections : \E k1, k2 \in SchemaKeys(s) :
    /\ k1 # k2
    /\ setDraftStateQueue[s] = <<>>
    /\ heap[draftState[s]][k1] = Str("a")
    /\ heap[draftState[s]][k2] = Str("")
    /\ draftState[s] # MountDraftRef(s)
    /\ heap[MountDraftRef(s)] = BlankOf(s)

\* ------------------------------------------------------------------ C4
\* C4: the blank draft a section creates at mount has exactly one entry per
\* descriptor of its schema and every value is null; it stays so until the
\* section's first field update.
C4_BlankDraftAtMount ==
  mounted =>
    \A s \in Sections :
      ChangePositions(s) = {} =>
        /\ Cardinality(DOMAIN heap[draftState[s]]) = Len(Fields(s))
        /\ \A i \in 1..Len(Fields(s)) :
             /\ Fields(s)[i].key \in DOMAIN heap[draftState[s]]
             /\ heap[draftState[s]][Fields(s)[i].key] = Null

\* The three sections have just mounted.
C4_Witness ==
  /\ mounted
  /\ events = <<>>
  /\ \A s \in Sections : draftState[s] = MountDraftRef(s) /\ effectPending[s]

C6_SubmitSeesAllEarlierUpdates ==
  \A i \in 1..Len(setCvDataQueue) :
    (events # <<>> /\ LastEvent.kind = "add")
    => heap[setCvDataQueue[i].ref] = TypedUpTo(LastEvent.section, Len(events))

\* An Add click directly follows a field update of the same section.
C6_Witness ==
  /\ Len(events) >= 2
  /\ setCvDataQueue # <<>>
  /\ LastEvent.kind = "add"
  /\ events[Len(events) - 1].kind = "change"
  /\ events[Len(events) - 1].section = LastEvent.section
  /\ events[Len(events) - 1].value = "a"

\* ------------------------------------------------------------------ C7
\* C7: for the education and experience sections each submit appends exactly
\* one record at the end of the section's list: earlier records keep their
\* positions, the list never shrinks, and its length is the number of submits.
C7_ListsAppendOnly ==
  /\ [][\A s \in ListSections :
          cvData'[CvSlot(s)] = cvData[CvSlot(s)] \o QueuedFor(CvSlot(s), setCvDataQueue)
       ]_vars
  /\ [](\A s \in ListSections :
          Len(cvData[CvSlot(s)]) + Len(QueuedFor(CvSlot(s), setCvDataQueue))
            = Cardinality(AddPositions(s)))

\* A list holds two different records in the order they were submitted.
C7_Witness ==
  \E s \in ListSections :
    /\ Len(cvData[CvSlot(s)]) = 2
    /\ heap[cvData[CvSlot(s)][1]] = BlankOf(s)
    /\ heap[cvData[CvSlot(s)][2]] # BlankOf(s)

\* ------------------------------------------------------------------ C8
\* C8: the general-information record is absent until the first general
\* submit, afterwards it is the record of the most recent general submit, and
\* once present it never becomes absent again.
C8_GeneralIsLatestSubmit ==
  /\ [](Quiescent =>
          IF AddPositions("general") = {}
            THEN cvData.generalInformation = NoRef
            ELSE /\ cvData.generalInformation # NoRef
                 /\ heap[cvData.generalInformation]
                      = TypedUpTo("general",
                                  CHOOSE i \in AddPositions("general") :
                                    \A j \in AddPositions("general") : j <= i))
  /\ [](~mounted => cvData.generalInformation = NoRef)
  /\ [][cvData.generalInformation # NoRef => cvData'.generalInformation # NoRef]_vars

\* A second general submit has replaced a different first one.
C8_Witness ==
  /\ Quiescent
  /\ Cardinality(AddPositions("general")) = 2
  /\ \E i \in AddPositions("general") :
       TypedUpTo("general", i) # heap[cvData.generalInformation]

\* ------------------------------------------------------------------ C9
\* C9 as stated: after a submit of a section that section's draft record is
\* reset to all-unset.
C9_DraftBlankAfterSubmit ==
  (Quiescent /\ events # <<>> /\ LastEvent.kind = "add")
  => \A k \in SchemaKeys(LastEvent.section) :
       heap[draftState[LastEvent.section]][k] = Null

\* C9 as amended: a submit leaves the section's draft record as it is (no
\* reset); the draft is never destroyed, it changes only when one of its own
\* queued field updates is applied, and a value once set never becomes unset.
C9_SubmitKeepsDraft ==
  [][mounted =>
       \A s \in Sections :
         /\ draftState'[s] # NoRef
         /\ (setDraftStateQueue[s] = <<>> \/ setDraftStateQueue'[s] # <<>>)
              => (draftState'[s] = draftState[s]
                  /\ heap'[draftState'[s]] = heap[draftState[s]])
         /\ \A k \in SchemaKeys(s) :
              heap[draftState[s]][k] # Null => heap'[draftState'[s]][k] # Null
     ]_vars

\* After a submit the edited draft still holds the value typed before it.
C9_Witness ==
  /\ Quiescent
  /\ events # <<>>
  /\ LastEvent.kind = "add"
  /\ \E k \in SchemaKeys(LastEvent.section) :
       heap[draftState[LastEvent.section]][k] = Str("a")

\* ------------------------------------------------------------------ C10
\* C10: a record in the CV collection is an immutable snapshot: no later event
\* changes the values of a record the collection holds.
C10_SubmittedRecordsImmutable ==
  [][\A r \in CvRefs : r <= Len(heap') /\ heap'[r] = heap[r]]_vars

\* The draft a stored record was taken from has been edited since.
C10_Witness ==
  /\ Quiescent
  /\ \E s \in Sections : \E r \in CvRefsOf(s) :
       /\ heap[r] # heap[draftState[s]]
       /\ \E i \in AddPositions(s) : \E j \in ChangePositions(s) : i < j

\* ------------------------------------------------------------------ C11
\* C11: no field-update event changes the CV collection, whatever name it
\* carries: the general record and both lists change only while an Add click
\* is being applied, and their sizes add up to the number of Add clicks.
C11_UpdatesLeaveCollectionAlone ==
  /\ [][cvData' # cvData
          => (events # <<>> /\ LastEvent.kind = "add" /\ events' = events)]_vars
  /\ [][(events' # events /\ events'[Len(events')].kind = "change")
          => (cvData' = cvData /\ setCvDataQueue' = setCvDataQueue)]_vars
  /\ [](Quiescent =>
          \A s \in ListSections :
            Len(cvData[CvSlot(s)]) = Cardinality(AddPositions(s)))

\* A field update, of a declared key or not, followed a submit and the list
\* still holds the one record.
C11_Witness ==
  /\ Quiescent
  /\ events # <<>>
  /\ LastEvent.kind = "change"
  /\ \E s \in ListSections :
       /\ Len(cvData[CvSlot(s)]) = 1
       /\ LastEvent.section = s
       /\ LastEvent.name \notin SchemaKeys(s)

\* ------------------------------------------------------------------ C12
\* The positions in the history of the change events of section s for key k.
KeyChangePositions(s, k) ==
  {i \in ChangePositions(s) : events[i].name = k}

\* The latest of a non-empty set of positions.
Latest(positions) == CHOOSE i \in positions : \A j \in positions : j <= i

\* C12: events are applied in dispatch order: once a section's updates are
\* rendered, each key of its draft holds the value of the last update
\* dispatched for that key, and null when none was dispatched.
C12_LastUpdateWins ==
  \A s \in Sections :
    (mounted /\ setDraftStateQueue[s] = <<>>) =>
      \A k \in SchemaKeys(s) :
        heap[draftState[s]][k] =
          IF KeyChangePositions(s, k) = {} THEN Null
          ELSE Str(events[Latest(KeyChangePositions(s, k))].value)

\* One key was updated twice with different values and another key once.
C12_Witness ==
  /\ Quiescent
  /\ \E s \in Sections : \E k1, k2 \in SchemaKeys(s) :
       /\ k1 # k2
       /\ Cardinality(KeyChangePositions(s, k1)) = 2
       /\ Cardinality(KeyChangePositions(s, k2)) = 1
       /\ \E i, j \in KeyChangePositions(s, k1) :
            i < j /\ events[i].value = "a" /\ events[j].value = ""
       /\ heap[draftState[s]][k1] = Str("")

\* ------------------------------------------------------------------ C13
\* C13: whenever nothing is queued and no effect is due, each section's entry
\* in draftData is the section's draftState, so every item the preview lists
\* shows what the section's input shows; this holds from the mount on.
C13_DraftDataMirrorsDraftState ==
  Quiescent =>
    \A s \in Sections :
      /\ draftData[DraftSlot(s)] = draftState[s]
      /\ \A k \in SchemaKeys(s) : MainDraftItems(DraftSlot(s))[k] = InputValue(s, k)

\* An edited draft has been mirrored and the preview lists the typed text.
C13_Witness ==
  /\ Quiescent
  /\ \E s \in Sections : \E k \in SchemaKeys(s) :
       /\ draftState[s] # MountDraftRef(s)
       /\ draftData[DraftSlot(s)] = draftState[s]
       /\ InputValue(s, k) = "a"
       /\ MainDraftItems(DraftSlot(s))[k] = "a"

\* ------------------------------------------------------------------ C14
\* C14: the rendered preview reflects the CV collection: once a submit has
\* been applied, every record of the collection is among the listings the
\* preview shows.
C14_PreviewListsCollection ==
  Quiescent =>
    \A r \in CvRefs : \E slot \in DraftSlots : MainDraftItems(slot) = ItemsOf(r)

\* ------------------------------------------------------------------ C15
\* C15: an empty string is accepted as a field value and stays distinct from
\* unset: after an update with value '' the draft maps that key to '' and not
\* to null, while a key never updated is null.
C15_EmptyStringIsAValue ==
  \A s \in Sections :
    (mounted /\ setDraftStateQueue[s] = <<>>) =>
      \A k \in SchemaKeys(s) :
        /\ (KeyChangePositions(s, k) # {}
              /\ events[Latest(KeyChangePositions(s, k))].value = "")
             => (heap[draftState[s]][k] = Str("") /\ heap[draftState[s]][k] # Null)
        /\ KeyChangePositions(s, k) = {} => heap[draftState[s]][k] = Null

\* A field was typed in and then cleared, next to a field never touched.
C15_Witness ==
  /\ Quiescent
  /\ \E s \in Sections : \E k1, k2 \in SchemaKeys(s) :
       /\ \E i, j \in KeyChangePositions(s, k1) :
            i < j /\ events[i].value = "a" /\ events[j].value = ""
       /\ KeyChangePositions(s, k2) = {}
       /\ heap[draftState[s]][k1] = Str("")
       /\ heap[draftState[s]][k2] = Null
       /\ InputValue(s, k1) = InputValue(s, k2)

\* ------------------------------------------------------------------ C16
\* C16: a submit is never blocked: whenever the page is idle the Add click of
\* every section is enabled whatever its draft holds, and once applied the
\* submitted draft is in the collection, an all-unset draft included.
C16_SubmitAlwaysEnabled ==
  /\ (Quiescent /\ Len(events) < MaxEvents)
       => \A s \in Sections : ENABLED HandleButtonClick(s)
  /\ (Quiescent /\ events # <<>> /\ LastEvent.kind = "add")
       => draftState[LastEvent.section] \in CvRefsOf(LastEvent.section)

\* An all-unset draft and a partly filled draft have both been submitted.
C16_Witness ==
  /\ Quiescent
  /\ \E s \in Sections :
       /\ \E r \in CvRefsOf(s) : heap[r] = BlankOf(s)
       /\ \E r \in CvRefsOf(s) : \E k1, k2 \in SchemaKeys(s) :
            heap[r][k1] # Null /\ heap[r][k2] = Null

\* ------------------------------------------------------------------ C17
\* C17: a field update is idempotent: when the update (k, v) just applied to a
\* draft is dispatched again, the record after the second update holds the
\* same values as the record after the first.
C17_RepeatedUpdateIsIdempotent ==
  [][\A s \in Sections :
       (/\ Len(events) >= 2
        /\ Len(setDraftStateQueue[s]) = 1
        /\ setDraftStateQueue'[s] = <<>>
        /\ events[Len(events) - 1] = events[Len(events)])
       => heap'[draftState'[s]] = heap[draftState[s]]
     ]_vars

\* The same update of a key was dispatched twice in a row and applied.
C17_Witness ==
  /\ Quiescent
  /\ Len(events) >= 2
  /\ LastEvent.kind = "change"
  /\ LastEvent.value = "a"
  /\ events[Len(events) - 1] = LastEvent
  /\ heap[draftState[LastEvent.section]][LastEvent.name] = Str("a")

\* ------------------------------------------------------------------ C18
\* The keys of a section's descriptors in list (display) order.
KeyOrder(s) == [i \in 1..Len(Fields(s)) |-> Fields(s)[i].key]

\* C18: within each of the three schemas the keys are pairwise distinct, the
\* lists keep the keys and the order they were defined with, and in every
\* reachable state each section's draft has one entry per descriptor.
C18_SchemaKeysDistinctAndFixed ==
  /\ \A s \in Sections :
       \A i, j \in 1..Len(Fields(s)) : i # j => Fields(s)[i].key # Fields(s)[j].key
  /\ KeyOrder("general") = <<"name", "email", "phoneNumber">>
  /\ KeyOrder("education") = <<"schoolName", "fieldOfStudy", "dateStarted", "dateEnded">>
  /\ KeyOrder("practical") = <<"companyName", "positionTitle", "responsibilities",
                               "dateStarted", "dateEnded">>
  /\ mounted =>
       \A s \in Sections : Cardinality(DOMAIN heap[draftState[s]]) = Len(Fields(s))

\* Updates, a submit and a toggle have all happened.
C18_Witness ==
  /\ Quiescent
  /\ Len(events) >= 3
  /\ \E i, j, k \in 1..Len(events) :
       /\ events[i].kind = "change"
       /\ events[j].kind = "add"
       /\ events[k].kind = "toggle"

\* ------------------------------------------------------------------ C20
\* The positions of str that hold an uppercase letter directly after a
\* lowercase letter or digit.
HumpPositions(str) ==
  {i \in 2..Len(str) : IsUpper(str[i]) /\ IsLowerOrDigit(str[i - 1])}

\* Where character i of str lands once a hyphen is put before every hump.
Landing(str, i) == i + Cardinality({h \in HumpPositions(str) : h <= i})

\* C20: camelToKebab puts a hyphen between every lowercase letter or digit and
\* the uppercase letter directly after it and lowercases the whole result;
\* 'phoneNumber' becomes 'phone-number' and a string without an uppercase
\* letter is returned unchanged.
C20_CamelToKebab ==
  kebab.called =>
    LET str == kebab.str
        out == kebab.result
    IN /\ Len(out) = Len(str) + Cardinality(HumpPositions(str))
       /\ \A i \in 1..Len(str) : out[Landing(str, i)] = ToLowerCaseChar(str[i])
       /\ \A h \in HumpPositions(str) : out[Landing(str, h) - 1] = "-"
       /\ (\A i \in 1..Len(str) : ~IsUpper(str[i])) => out = str
       /\ str = KeyChars("phoneNumber")
            => out = <<"p","h","o","n","e","-","n","u","m","b","e","r">>

\* A string with two humps was converted: each got its hyphen.
C20_Witness ==
  /\ kebab.called
  /\ Cardinality(HumpPositions(kebab.str)) = 2
  /\ Len(kebab.result) = Len(kebab.str) + 2
  /\ kebab.str = KeyChars("fieldOfStudy")

\* ------------------------------------------------------------------ C21
\* What the application holds for section t: its draft object and contents,
\* its mirror in draftData and its part of the CV collection with contents.
SectionView(t) ==
  [draft      |-> draftState[t],
   draftValue |-> heap[draftState[t]],
   queue      |-> setDraftStateQueue[t],
   mirror     |-> draftData[DraftSlot(t)],
   stored     |-> cvData[CvSlot(t)],
   storedValues |-> [r \in CvRefsOf(t) |-> heap[r]]]

\* The same view in the next state.
SectionViewNext(t) ==
  [draft      |-> draftState'[t],
   draftValue |-> heap'[draftState'[t]],
   queue      |-> setDraftStateQueue'[t],
   mirror     |-> draftData'[DraftSlot(t)],
   stored     |-> cvData'[CvSlot(t)],
   storedValues |-> [r \in CvRefsOf(t)' |-> heap'[r]]]

\* C21: sections are isolated: from the dispatch of a field update or an Add
\* click of one section until the page is idle again, no step changes the
\* draft, the mirrored draft or the collection entries of the other two
\* sections, although education and experience share the key names
\* dateStarted and dateEnded.
C21_SectionsIsolated ==
  [][(events' # <<>> /\ events'[Len(events')].kind \in {"change", "add"})
       => \A t \in Sections \ {events'[Len(events')].section} :
            SectionViewNext(t) = SectionView(t)
    ]_vars

\* dateStarted was set and submitted in the experience section, then set to
\* another value in the education section: the experience draft and its stored
\* record keep theirs.
C21_Witness ==
  /\ Quiescent
  /\ events # <<>>
  /\ LastEvent = [kind |-> "change", section |-> "education",
                  name |-> "dateStarted", value |-> "a"]
  /\ heap[draftState["education"]]["dateStarted"] = Str("a")
  /\ heap[draftState["practical"]]["dateStarted"] = Str("")
  /\ Len(cvData.practicalExperience) = 1
  /\ heap[cvData.practicalExperience[1]]["dateStarted"] = Str("")
  /\ cvData.educationalExperience = <<>>

\* ------------------------------------------------------------------ C22
\* The refs queued for one draftData slot, in queue order.
RECURSIVE QueuedDrafts(_, _)
QueuedDrafts(slot, queue) ==
  IF queue = <<>> THEN <<>>
  ELSE (IF Head(queue).slot = slot THEN <<Head(queue).ref>> ELSE <<>>)
       \o QueuedDrafts(slot, Tail(queue))

\* The positions in a section's queue of the updaters for key k.
QueuedKeyPositions(s, k) ==
  {i \in 1..Len(setDraftStateQueue[s]) : setDraftStateQueue[s][i].name = k}

\* C22: no queued update is lost.  A render applies every queued updater in
\* dispatch order: each draftData slot takes the last draft queued for it, each
\* list gains every queued record in order, each draft key takes the last value
\* queued for it; and once the page is idle every Add click is in its list,
\* every draft key holds the last value dispatched for it and every section's
\* mirror is its draft, the three mount-time mirrors included.
C22_NoQueuedUpdateLost ==
  /\ [][\A s \in Sections :
          LET drafts == QueuedDrafts(DraftSlot(s), setDraftDataQueue)
          IN (setDraftDataQueue # <<>> /\ setDraftDataQueue' = <<>>)
             => draftData'[DraftSlot(s)] =
                  IF drafts = <<>> THEN draftData[DraftSlot(s)] ELSE drafts[Len(drafts)]
       ]_vars
  /\ [][\A s \in ListSections :
          (setCvDataQueue # <<>> /\ setCvDataQueue' = <<>>)
          => cvData'[CvSlot(s)] = cvData[CvSlot(s)] \o QueuedFor(CvSlot(s), setCvDataQueue)
       ]_vars
  /\ [][\A s \in Sections :
          (setDraftStateQueue[s] # <<>> /\ setDraftStateQueue'[s] = <<>>)
          => \A k \in SchemaKeys(s) :
               heap'[draftState'[s]][k] =
                 IF QueuedKeyPositions(s, k) = {} THEN heap[draftState[s]][k]
                 ELSE Str(setDraftStateQueue[s][Latest(QueuedKeyPositions(s, k))].value)
       ]_vars
  /\ [](Quiescent =>
          \A s \in Sections :
            /\ draftData[DraftSlot(s)] = draftState[s]
            /\ s \in ListSections => Len(cvData[CvSlot(s)]) = Cardinality(AddPositions(s))
            /\ \A k \in SchemaKeys(s) :
                 heap[draftState[s]][k] =
                   IF KeyChangePositions(s, k) = {} THEN Null
                   ELSE Str(events[Latest(KeyChangePositions(s, k))].value))

\* Two field updates of one section were applied by a single render (one new
\* object holds both values) and one Add click reached its list, after the
\* three mount-time mirrors: all of them show.
C22_Witness ==
  /\ Quiescent
  /\ Len(heap) = 7
  /\ \E s \in ListSections : \E k1, k2 \in SchemaKeys(s) :
       /\ k1 # k2
       /\ heap[draftState[s]][k1] = Str("a")
       /\ heap[draftState[s]][k2] = Str("")
       /\ draftState[s] = 7
       /\ draftData[DraftSlot(s)] = 7
       /\ Len(cvData[CvSlot(s)]) = 1
       /\ \A t \in Sections \ {s} : draftData[DraftSlot(t)] = MountDraftRef(t)

\* ------------------------------------------------------------------ C23
\* Positions in the history of the clicks on the toggle.
TogglePositions == {i \in 1..Len(events) : events[i].kind = "toggle"}

\* C23: the side panel starts closed, each click on the toggle flips it (once
\* the clicks are rendered the panel is open iff their number is odd), and in
\* every state the toggle's aria-expanded is the open state, the panel's
\* aria-hidden is its negation and the toggle controls the panel's id.
C23_ToggleFlipsPanel ==
  /\ TogglePositions = {} => ~isActive
  /\ setIsActiveQueue = 0 => (isActive <=> Cardinality(TogglePositions) % 2 = 1)
  /\ AriaExpanded(toggleProps) = isActive
  /\ AriaHidden(AsideProps) = ~isActive
  /\ AriaControls(toggleProps) = AsideProps.id

\* The toggle was clicked open and clicked closed again.
C23_Witness ==
  /\ Quiescent
  /\ Cardinality(TogglePositions) = 2
  /\ ~isActive
  /\ ~AriaExpanded(toggleProps)
  /\ AriaHidden(AsideProps)

\* ------------------------------------------------------------------ C24
\* C24: a click on the toggle changes only the open/closed flag: from its
\* dispatch until it is rendered no draft, no mirrored draft and nothing in
\* the CV collection changes, and whether the panel is shown or hidden each
\* draft holds the values typed into it so far (the sections stay mounted).
C24_ToggleChangesOnlyFlag ==
  /\ [][(events' # <<>> /\ events'[Len(events')].kind = "toggle")
          => /\ UNCHANGED <<heap, draftState, setDraftStateQueue, effectPending,
                            draftData, setDraftDataQueue, cvData, setCvDataQueue,
                            mounted>>
             /\ (isActive' # isActive => setIsActiveQueue # 0)
       ]_vars
  /\ [](Quiescent =>
          \A s \in Sections : heap[draftState[s]] = TypedUpTo(s, Len(events)))

\* A draft was edited, then the panel was toggled twice (shown and hidden
\* again): the draft still holds the typed value.
C24_Witness ==
  /\ Quiescent
  /\ Len(events) = 3
  /\ events[1].kind = "change"
  /\ events[1].value = "a"
  /\ events[2].kind = "toggle"
  /\ events[3].kind = "toggle"
  /\ ~isActive
  /\ heap[draftState[events[1].section]][events[1].name] = Str("a")
  /\ InputValue(events[1].section, events[1].name) = "a"

\* ------------------------------------------------------------------ C25
\* C25: for every section the three blank records agree: App's hand-written
\* initial draftData entry, the record FormSection builds from its fields at
\* mount and createStateFromKeys(pluck(fields, 'key')) have the schema's key
\* set and null values only; so the first mirror of a section's draft into
\* App, which swaps the object, leaves the values draftData shows unchanged.
C25_BlankRecordsAgree ==
  /\ [](\A s \in Sections :
          /\ AppInitialDraft(DraftSlot(s)) = InitialDraftState(s)
          /\ InitialDraftState(s) = createStateFromKeys(pluck(Fields(s), "key"))
          /\ DOMAIN createStateFromKeys(pluck(Fields(s), "key")) = SchemaKeys(s)
          /\ \A k \in SchemaKeys(s) :
               createStateFromKeys(pluck(Fields(s), "key"))[k] = Null)
  /\ [](\A s \in Sections :
          (mounted /\ ChangePositions(s) = {})
          => /\ heap[draftData[DraftSlot(s)]] = createStateFromKeys(pluck(Fields(s), "key"))
             /\ heap[draftState[s]] = heap[draftData[DraftSlot(s)]])
  /\ [][(mounted /\ events = <<>>)
          => \A s \in Sections :
               heap'[draftData'[DraftSlot(s)]] = heap[draftData[DraftSlot(s)]]
       ]_vars

\* The mount-time effects have mirrored each section's blank draft into App:
\* draftData now holds the sections' objects, no longer App's own literals.
C25_Witness ==
  /\ Quiescent
  /\ events = <<>>
  /\ \A s \in Sections :
       /\ draftData[DraftSlot(s)] = MountDraftRef(s)
       /\ draftData[DraftSlot(s)] > 3
       /\ heap[draftData[DraftSlot(s)]] = AppInitialDraft(DraftSlot(s))

\* ------------------------------------------------------------------ C26
\* The inputs on the rendered page: one per field of each section Aside renders.
RenderedInputs == UNION {{<<s, i>> : i \in 1..Len(Fields(s))} : s \in Sections}

\* id={id} on the input and htmlFor={id} on its label, id = camelToKebab(field.key).
InputId(x) == FieldId(Fields(x[1])[x[2]].key)

\* C26: once the page is rendered every label's htmlFor id identifies exactly
\* one input: the ids of the inputs of the three sections are pairwise distinct.
C26_FieldIdsDistinct ==
  mounted => \A x, y \in RenderedInputs : x # y => InputId(x) # InputId(y)

\* ------------------------------------------------------------------ C27
\* The input kind of a descriptor: its declared type, text when none is declared.
InputKind(field) == IF field.type = Null THEN "text" ELSE field.type[1]

\* The descriptor of a rendered input.
FieldOf(x) == Fields(x[1])[x[2]]

\* C27: a descriptor of kind textarea is rendered as a textarea, every other
\* one as an input of the declared type, text when none is declared; every
\* descriptor has a kind in {text, email, tel, date, textarea}; the email field
\* is of kind email and the phone field of kind tel.
C27_InputKindDeterminesRendering ==
  mounted =>
    \A x \in RenderedInputs :
      /\ InputKind(FieldOf(x)) = "textarea" => RenderField(FieldOf(x)).tag = "textarea"
      /\ InputKind(FieldOf(x)) # "textarea"
           => /\ RenderField(FieldOf(x)).tag = "input"
              /\ RenderField(FieldOf(x)).type = Str(InputKind(FieldOf(x)))
      /\ InputKind(FieldOf(x)) \in {"text", "email", "tel", "date", "textarea"}
      /\ FieldOf(x).key = "email" => InputKind(FieldOf(x)) = "email"
      /\ FieldOf(x).key = "phoneNumber" => InputKind(FieldOf(x)) = "tel"

\* ------------------------------------------------------------------ C29
\* C29: bootstrap fails fast: getRootElement(id) returns the element when the
\* page has an element with that id and throws otherwise; after the throw the
\* application is never mounted and no draft or collection state exists.
C29_BootstrapFailsFast ==
  /\ [](\A id \in {"root", "app"} :
          /\ id \in document
               => (~getRootElement(id).threw /\ getRootElement(id).element = id)
          /\ id \notin document => getRootElement(id).threw)
  /\ [](mounted => "root" \in document /\ ~uncaught)
  /\ []("root" \notin document
          => /\ ~mounted
             /\ heap = <<>>
             /\ \A s \in Sections : draftState[s] = NoRef
             /\ \A d \in DraftSlots : draftData[d] = NoRef
             /\ CvRefs = {}
             /\ events = <<>>)
  /\ [][uncaught => (uncaught' /\ ~mounted')]_vars

\* The page has no #root element: getRootElement threw and nothing was created.
C29_Witness ==
  /\ uncaught
  /\ "root" \notin document
  /\ ~mounted
  /\ heap = <<>>

\* ------------------------------------------------------------------ C28
\* C28: the toggle renders at most one visual, chosen by its variant among
\* hamburger, icon, avatar and badge, hamburger when none is given: hamburger
\* renders the bars, icon renders an image only when an icon URL is given and
\* nothing otherwise, avatar and badge render their child content.
C28_OneVisualPerVariant ==
  button.called =>
    LET props == button.props
        out == button.result.visuals
        variant == IF props.visual = Null THEN "hamburger" ELSE props.visual[1]
    IN /\ variant \in VisualVariant
       /\ Len(out) <= 1
       /\ variant = "hamburger"
            => (Len(out) = 1 /\ out[1].tag = "div" /\ out[1].className = "hamburger-bars"
                /\ out[1].content = Null)
       /\ variant = "icon"
            => IF props.iconUrl \in {Null, Str("")} THEN out = <<>>
               ELSE (Len(out) = 1 /\ out[1].tag = "img" /\ out[1].src = props.iconUrl)
       /\ variant = "avatar"
            => (Len(out) = 1 /\ out[1].className = "avatar-container"
                /\ out[1].content = props.children)
       /\ variant = "badge"
            => (Len(out) = 1 /\ out[1].className = "badge-container"
                /\ out[1].content = props.children)

\* The icon variant was rendered without an icon URL: the button has no visual.
C28_Witness ==
  /\ button.called
  /\ button.props.visual = Str("icon")
  /\ button.props.iconUrl = Null
  /\ button.props.children = Str("JK")
  /\ button.result.visuals = <<>>

====
